---- MODULE Spec2Model ----
(***************************************************************************)
(* Model of the RAG chat endpoint (src/app.py), the reusable samples       *)
(* (src/reusable_samples: search.py, ai_search.py, aoai.py, indexing.py,   *)
(* adls.py, document_intelligence.py, cosmosdb.py, getcodebase.py) and the *)
(* evaluation harness (src/evaluation/evaluate.py).                        *)
(***************************************************************************)
EXTENDS Integers, Sequences, FiniteSets, TLC

\* ------------------------------------------------------------------------
\* Bounds
\* ------------------------------------------------------------------------
NumReqs == 2

\* ------------------------------------------------------------------------
\* Values
\* ------------------------------------------------------------------------
None == "None"

Reqs == 1..NumReqs

\* request.json.get('user_input', '') : the question, '' when the key is absent
UserInputs == {"", "what does my plan cost"}

\* contents the chat provider may reply with to the query translation call
TranslationReplies == {"", "plan cost"}

\* contents the chat provider may reply with to the answer generation call
AnswerReplies == {"it costs $100", "I do not know"}

\* documents of the index as the search provider reports them
\* a document as the search provider yields it: a mapping with the index
\* fields and the provider's "@search.score"
Doc(id, title, content, s) ==
    ("id" :> id) @@ ("title" :> title) @@ ("content" :> content)
        @@ ("@search.score" :> s)

IndexDocs ==
    { Doc("doc1", "costs", "plan costs $100", 2),
      Doc("doc2", "dental", "dental plan", 1) }

RECURSIVE IsNonIncreasing(_)
IsNonIncreasing(s) ==
    IF Len(s) <= 1 THEN TRUE
    ELSE s[1]["@search.score"] >= s[2]["@search.score"] /\ IsNonIncreasing(Tail(s))

IsInjective(s) == \A i, j \in 1..Len(s) : i # j => s[i] # s[j]

SeqsUpTo(S, n) == UNION { [1..m -> S] : m \in 0..n }

\* the rankings the search service may compute over the documents of an
\* index: distinct documents, best score first (ties in either order)
Rankings(docs) ==
    { s \in SeqsUpTo(docs, Cardinality(docs)) : IsInjective(s) /\ IsNonIncreasing(s) }

Min(a, b) == IF a <= b THEN a ELSE b

\* search_client.search(..., top=top): the first top documents of the ranking
SearchProvider(ranking, top) == SubSeq(ranking, 1, Min(top, Len(ranking)))

IsPrefix(s, t) == Len(s) <= Len(t) /\ s = SubSeq(t, 1, Len(s))

RECURSIVE Reverse(_)
Reverse(s) == IF s = <<>> THEN <<>> ELSE Append(Reverse(Tail(s)), Head(s))

\* ------------------------------------------------------------------------
\* State of the /chat endpoint
\* ------------------------------------------------------------------------
VARIABLES
    pc,             \* position of each request in chat()/get_context()
    user_input,     \* chat(): user_input
    search_query,   \* get_context(): search_query
    query_vector,   \* get_context(): query_vector
    results,        \* get_context(): what search_client.search returned
    context,        \* get_context()/chat(): context
    llm_input,      \* chat(): llm_input
    response,       \* chat(): response
    final_response, \* chat(): the body handed to jsonify
    calls,          \* the remote calls issued for each request, in order
    failed          \* the stage whose remote call raised, if any

chatVars == << pc, user_input, search_query, query_vector, results, context,
               llm_input, response, final_response, calls, failed >>

\* get_context(): k_nearest_neighbors=3, top=3
ChatTop == 3

StageOrder == << "translate", "embed", "search", "answer" >>

Stages(r) == [ i \in 1..Len(calls[r]) |-> calls[r][i].stage ]

\* no body has been handed to jsonify
NoBody == [response |-> None, context |-> << >>]

ChatInit ==
    /\ pc = [r \in Reqs |-> "idle"]
    /\ user_input = [r \in Reqs |-> None]
    /\ search_query = [r \in Reqs |-> None]
    /\ query_vector = [r \in Reqs |-> << >>]
    /\ results = [r \in Reqs |-> <<>>]
    /\ context = [r \in Reqs |-> <<>>]
    /\ llm_input = [r \in Reqs |-> << >>]
    /\ response = [r \in Reqs |-> None]
    /\ final_response = [r \in Reqs |-> NoBody]
    /\ calls = [r \in Reqs |-> <<>>]
    /\ failed = [r \in Reqs |-> None]

\* aoai_client.embeddings.create(input=[text]).data[0].embedding
Embedding(text) == << "vec", text >>

\* the "Process results" loop of get_context
FormatContext(res) ==
    [ i \in 1..Len(res) |-> [filename |-> res[i]["id"], content |-> res[i]["content"]] ]

\* "\n".join([f"{item['filename']}: {item['content']}" for item in context])
RECURSIVE JoinContext(_)
JoinContext(ctx) ==
    IF ctx = <<>> THEN <<>>
    ELSE LET line == << ctx[1].filename, ": ", ctx[1].content >>
         IN  IF Len(ctx) = 1 THEN line
             ELSE line \o << "\n" >> \o JoinContext(Tail(ctx))

\* f"Context: {context_text}\n\nUser Input: {user_input}"
LlmInput(ctx, ui) ==
    << "Context: " >> \o JoinContext(ctx) \o << "\n\nUser Input: ", ui >>

FinalResponseReordered(resp, ctx) == [response |-> resp, context |-> Reverse(ctx)]

\* final_response = {"response": response, "context": context}
FinalResponse(resp, ctx) == [response |-> resp, context |-> ctx]

\* a remote call of request r raised: the exception leaves chat() unhandled
Abort(r, stage) ==
    /\ pc' = [pc EXCEPT ![r] = "aborted"]
    /\ failed' = [failed EXCEPT ![r] = stage]

\* chat(): user_input = request.json.get('user_input', '')
Receive(r) ==
    /\ pc[r] = "idle"
    /\ \E u \in UserInputs : user_input' = [user_input EXCEPT ![r] = u]
    /\ pc' = [pc EXCEPT ![r] = "received"]
    /\ UNCHANGED << search_query, query_vector, results, context, llm_input,
                    response, final_response, calls, failed >>

TranslateWithFallback(r) ==
    /\ pc[r] = "received"
    /\ calls' = [calls EXCEPT ![r] =
                   Append(@, [stage |-> "translate", arg |-> user_input[r]])]
    /\ \/ /\ search_query' = [search_query EXCEPT ![r] = user_input[r]]
          /\ pc' = [pc EXCEPT ![r] = "query_translated"]
          /\ failed' = [failed EXCEPT ![r] = "translate"]
       \/ /\ \E c \in TranslationReplies :
                search_query' = [search_query EXCEPT ![r] = c]
          /\ pc' = [pc EXCEPT ![r] = "query_translated"]
          /\ UNCHANGED failed
    /\ UNCHANGED << user_input, query_vector, results, context, llm_input,
                    response, final_response >>

\* get_context(): search_query = primary_llm.invoke(messages).content
Translate(r) ==
    /\ pc[r] = "received"
    /\ calls' = [calls EXCEPT ![r] =
                   Append(@, [stage |-> "translate", arg |-> user_input[r]])]
    /\ \/ /\ Abort(r, "translate")
          /\ UNCHANGED search_query
       \/ /\ \E c \in TranslationReplies :
                search_query' = [search_query EXCEPT ![r] = c]
          /\ pc' = [pc EXCEPT ![r] = "query_translated"]
          /\ UNCHANGED failed
    /\ UNCHANGED << user_input, query_vector, results, context, llm_input,
                    response, final_response >>

EmbedSoftSkip(r) ==
    /\ pc[r] = "query_translated"
    /\ calls' = [calls EXCEPT ![r] =
                   Append(@, [stage |-> "embed", arg |-> search_query[r]])]
    /\ \/ /\ failed' = [failed EXCEPT ![r] = "embed"]
          /\ pc' = [pc EXCEPT ![r] = "context_retrieved"]
          /\ UNCHANGED query_vector
       \/ /\ query_vector' = [query_vector EXCEPT ![r] = Embedding(search_query[r])]
          /\ pc' = [pc EXCEPT ![r] = "embedded"]
          /\ UNCHANGED failed
    /\ UNCHANGED << user_input, search_query, results, context, llm_input,
                    response, final_response >>

\* get_context(): query_vector = generate_embeddings(search_query)
Embed(r) ==
    /\ pc[r] = "query_translated"
    /\ calls' = [calls EXCEPT ![r] =
                   Append(@, [stage |-> "embed", arg |-> search_query[r]])]
    /\ \/ /\ Abort(r, "embed")
          /\ UNCHANGED query_vector
       \/ /\ query_vector' = [query_vector EXCEPT ![r] = Embedding(search_query[r])]
          /\ pc' = [pc EXCEPT ![r] = "embedded"]
          /\ UNCHANGED failed
    /\ UNCHANGED << user_input, search_query, results, context, llm_input,
                    response, final_response >>

SearchWithRawInput(r) ==
    /\ pc[r] = "embedded"
    /\ calls' = [calls EXCEPT ![r] =
                   Append(@, [stage |-> "search",
                              arg |-> << user_input[r], query_vector[r] >>])]
    /\ \/ /\ Abort(r, "search")
          /\ UNCHANGED << results, context >>
       \/ /\ \E ranking \in Rankings(IndexDocs) :
                LET res == SearchProvider(ranking, ChatTop)
                IN  /\ results' = [results EXCEPT ![r] = res]
                    /\ context' = [context EXCEPT ![r] = FormatContext(res)]
          /\ pc' = [pc EXCEPT ![r] = "context_retrieved"]
          /\ UNCHANGED failed
    /\ UNCHANGED << user_input, search_query, query_vector, llm_input,
                    response, final_response >>

\* get_context(): results = search_client.search(search_text=search_query,
\* vector_queries=[vector_query], top=3), then the result loop
Search(r) ==
    /\ pc[r] = "embedded"
    /\ calls' = [calls EXCEPT ![r] =
                   Append(@, [stage |-> "search",
                              arg |-> << search_query[r], query_vector[r] >>])]
    /\ \/ /\ Abort(r, "search")
          /\ UNCHANGED << results, context >>
       \/ /\ \E ranking \in Rankings(IndexDocs) :
                LET res == SearchProvider(ranking, ChatTop)
                IN  /\ results' = [results EXCEPT ![r] = res]
                    /\ context' = [context EXCEPT ![r] = FormatContext(res)]
          /\ pc' = [pc EXCEPT ![r] = "context_retrieved"]
          /\ UNCHANGED failed
    /\ UNCHANGED << user_input, search_query, query_vector, llm_input,
                    response, final_response >>

RespondBeforeAnswer(r) ==
    /\ pc[r] = "context_retrieved"
    /\ final_response' = [final_response EXCEPT ![r] = FinalResponse(response[r], context[r])]
    /\ pc' = [pc EXCEPT ![r] = "responded"]
    /\ UNCHANGED << user_input, search_query, query_vector, results, context,
                    llm_input, response, calls, failed >>

AnswerRejectsEmpty(r) ==
    /\ pc[r] = "context_retrieved"
    /\ IF context[r] = << >>
       THEN /\ Abort(r, "answer")
            /\ UNCHANGED << llm_input, calls, response >>
       ELSE /\ llm_input' = [llm_input EXCEPT ![r] = LlmInput(context[r], user_input[r])]
            /\ calls' = [calls EXCEPT ![r] =
                           Append(@, [stage |-> "answer",
                                      arg |-> LlmInput(context[r], user_input[r])])]
            /\ \/ /\ Abort(r, "answer")
                  /\ UNCHANGED response
               \/ /\ \E a \in AnswerReplies : response' = [response EXCEPT ![r] = a]
                  /\ pc' = [pc EXCEPT ![r] = "answer_generated"]
                  /\ UNCHANGED failed
    /\ UNCHANGED << user_input, search_query, query_vector, results, context,
                    final_response >>

\* chat(): build llm_input, raw_response = primary_llm.invoke(messages)
Answer(r) ==
    /\ pc[r] = "context_retrieved"
    /\ llm_input' = [llm_input EXCEPT ![r] = LlmInput(context[r], user_input[r])]
    /\ calls' = [calls EXCEPT ![r] =
                   Append(@, [stage |-> "answer",
                              arg |-> LlmInput(context[r], user_input[r])])]
    /\ \/ /\ Abort(r, "answer")
          /\ UNCHANGED response
       \/ /\ \E a \in AnswerReplies : response' = [response EXCEPT ![r] = a]
          /\ pc' = [pc EXCEPT ![r] = "answer_generated"]
          /\ UNCHANGED failed
    /\ UNCHANGED << user_input, search_query, query_vector, results, context,
                    final_response >>

RespondFromSharedContext(r) ==
    /\ pc[r] = "answer_generated"
    /\ \E q \in Reqs :
          final_response' = [final_response EXCEPT ![r] = FinalResponse(response[r], context[q])]
    /\ pc' = [pc EXCEPT ![r] = "responded"]
    /\ UNCHANGED << user_input, search_query, query_vector, results, context,
                    llm_input, response, calls, failed >>

\* chat(): return jsonify(final_response)
Respond(r) ==
    /\ pc[r] = "answer_generated"
    /\ final_response' = [final_response EXCEPT ![r] = FinalResponse(response[r], context[r])]
    /\ pc' = [pc EXCEPT ![r] = "responded"]
    /\ UNCHANGED << user_input, search_query, query_vector, results, context,
                    llm_input, response, calls, failed >>

\* ------------------------------------------------------------------------
\* The reusable samples: aoai.py, search.py, ai_search.py
\* ------------------------------------------------------------------------
MaxTop == 3
MaxChunks == 2

Tops == 1..MaxTop

\* search.py hybrid_search: k_nearest_neighbors=3, top=3
HybridSearchTop == 3

\* ai_search.py hybrid_search_simple: k_nearest_neighbors=3, top=3
HybridSearchSimpleTop == 3

SampleDocs ==
    { Doc("a", "t1", "artificial intelligence", 3),
      Doc("b", "t2", "language processing", 2),
      Doc("c", "t3", "machine learning", 2),
      Doc("d", "t4", "unrelated", 1) }

SampleDocIds == {"1", "2"}

Restrict(f, keys) == [k \in (DOMAIN f) \cap keys |-> f[k]]

\* select=[...]: the provider yields the selected fields and its score
Select(res, fields) ==
    [ i \in 1..Len(res) |-> Restrict(res[i], fields \cup {"@search.score"}) ]

VARIABLES
    call,       \* the last call of a sample function and how it ended
    svcIndex,   \* the definition of the index on the search service
    svcDocs     \* the ids of the documents stored in the index

sampleVars == << call, svcIndex, svcDocs >>

Raised(reqs, emb, fault) ==
    [outcome |-> "raised", value |-> << >>, requests |-> reqs,
     embedding |-> emb, fault |-> fault]

Returned(v, reqs, emb, fault) ==
    [outcome |-> "returned", value |-> v, requests |-> reqs,
     embedding |-> emb, fault |-> fault]

EmbReq(text) == [op |-> "embeddings", text |-> text, top |-> 0]
SearchReq(text, top) == [op |-> "search", text |-> text, top |-> top]

generate_embeddings_aoai_reraise(embedOk, text) ==
    IF embedOk
    THEN [raised |-> FALSE, isNone |-> FALSE, data |-> << Embedding(text) >>]
    ELSE [raised |-> TRUE, isNone |-> TRUE, data |-> << >>]

\* aoai.py generate_embeddings_aoai: the response, or None when the call raised
generate_embeddings_aoai(embedOk, text) ==
    IF embedOk
    THEN [raised |-> FALSE, isNone |-> FALSE, data |-> << Embedding(text) >>]
    ELSE [raised |-> FALSE, isNone |-> TRUE, data |-> << >>]

EmbState(embedOk) == IF embedOk THEN "ok" ELSE "failed"

\* search.py hybrid_search: the loop building formatted_results
FormatResults(res) ==
    [ i \in 1..Len(res) |->
        [id |-> res[i]["id"], title |-> res[i]["title"],
         content |-> res[i]["content"], score |-> res[i]["@search.score"]] ]

\* search.py hybrid_search (under error_handler, which logs and re-raises)
hybrid_search(query, configOk, embedOk, searchOk, ranking) ==
    IF ~configOk THEN Raised(<< >>, "not_called", "config")
    ELSE LET e == generate_embeddings_aoai(embedOk, query)
             embReqs == << EmbReq(query) >>
         IN  IF e.raised THEN Raised(embReqs, EmbState(embedOk), "embedding")
             ELSE IF e.isNone THEN Returned(<< >>, embReqs, EmbState(embedOk), "embedding")
             ELSE LET reqs == Append(embReqs, SearchReq(query, HybridSearchTop))
                  IN  IF ~searchOk THEN Raised(reqs, "ok", "search")
                      ELSE Returned(FormatResults(SearchProvider(ranking, HybridSearchTop)),
                                    reqs, "ok", "none")

\* the body shared by the AISearchManager searches that embed the query:
\* embed, return [] on a falsy embedding, search with the given top
EmbeddedSearch(query, searchText, topArg, embedOk, searchOk, ranking) ==
    LET e == generate_embeddings_aoai(embedOk, query)
        embReqs == << EmbReq(query) >>
    IN  IF e.raised THEN Raised(embReqs, EmbState(embedOk), "embedding")
        ELSE IF e.isNone THEN Returned(<< >>, embReqs, EmbState(embedOk), "embedding")
        ELSE LET reqs == Append(embReqs, SearchReq(searchText, topArg))
             IN  IF ~searchOk THEN Raised(reqs, "ok", "search")
                 ELSE Returned(Select(SearchProvider(ranking, topArg), {"id", "content"}),
                               reqs, "ok", "none")

\* ai_search.py AISearchManager.simple_hybrid_search
simple_hybrid_search(query, top, embedOk, searchOk, ranking) ==
    EmbeddedSearch(query, query, top, embedOk, searchOk, ranking)

\* ai_search.py AISearchManager.simple_text_search
simple_text_search(query, top, searchOk, ranking) ==
    LET reqs == << SearchReq(query, top) >>
    IN  IF ~searchOk THEN Raised(reqs, "not_called", "search")
        ELSE Returned(Select(SearchProvider(ranking, top), {"id", "content"}),
                      reqs, "not_called", "none")

\* ai_search.py AISearchManager.simple_vector_search
simple_vector_search(query, top, embedOk, searchOk, ranking) ==
    EmbeddedSearch(query, "", top, embedOk, searchOk, ranking)

\* ai_search.py AISearchManager.hybrid_search_simple: top is not used,
\* k_nearest_neighbors=3 and top=3 are literals
hybrid_search_simple(query, top, embedOk, searchOk, ranking) ==
    EmbeddedSearch(query, query, HybridSearchSimpleTop, embedOk, searchOk, ranking)

\* aoai.py inference_structured_output_aoai: the completion, None on an error
inference_structured_output_aoai(remoteOk) ==
    LET reqs == << [op |-> "parse", text |-> "", top |-> 0] >>
    IN  IF remoteOk THEN Returned("completion", reqs, "not_called", "none")
        ELSE Returned(None, reqs, "not_called", "chat")

\* aoai.py tool_inference_aoai: the response, None on an error; the argument
\* of logger.debug reads tool_calls[0], which raises when the reply has none
tool_inference_aoai(remoteOk, hasToolCall) ==
    LET reqs == << [op |-> "chat", text |-> "", top |-> 0] >>
    IN  IF ~remoteOk THEN Returned(None, reqs, "not_called", "chat")
        ELSE IF ~hasToolCall THEN Returned(None, reqs, "not_called", "none")
        ELSE Returned("response", reqs, "not_called", "none")

\* the chunks of a streamed completion: without choices, with an empty delta,
\* with a delta whose content is None, or with a content delta
ChunkKinds == {"nochoices", "nodelta", "nullcontent", "he", "llo"}

ChunkContent(c) == IF c \in {"nochoices", "nodelta", "nullcontent"} THEN << >> ELSE << c >>

RECURSIVE ConcatChunks(_)
ConcatChunks(chunks) ==
    IF chunks = << >> THEN << >>
    ELSE ChunkContent(Head(chunks)) \o ConcatChunks(Tail(chunks))

stream_inference_aoai_partial(chunks, failAfter) ==
    LET reqs == << [op |-> "chat_stream", text |-> "", top |-> 0] >>
    IN  IF failAfter = -1 THEN Returned(ConcatChunks(chunks), reqs, "not_called", "none")
        ELSE Returned(ConcatChunks(SubSeq(chunks, 1, failAfter)), reqs, "not_called", "chat")

\* aoai.py stream_inference_aoai: failAfter = -1 when nothing raises, 0 when
\* create raises, n when the stream raises after n chunks
stream_inference_aoai(chunks, failAfter) ==
    LET reqs == << [op |-> "chat_stream", text |-> "", top |-> 0] >>
    IN  IF failAfter = -1 THEN Returned(ConcatChunks(chunks), reqs, "not_called", "none")
        ELSE Returned(<< >>, reqs, "not_called", "chat")

\* ai_search.py AISearchManager.create_search_index: getOk says whether
\* get_index returned; the result carries the index left on the service
create_search_index(index, getOk, createOk) ==
    IF getOk
    THEN [ret |-> Returned(TRUE, << [op |-> "get_index", text |-> "", top |-> 0] >>,
                           "not_called", "none"),
          index |-> index]
    ELSE LET reqs == << [op |-> "get_index", text |-> "", top |-> 0],
                        [op |-> "create_or_update_index", text |-> "", top |-> 0] >>
         IN  IF createOk
             THEN [ret |-> Returned(TRUE, reqs, "not_called", "none"), index |-> "sample"]
             ELSE [ret |-> Returned(FALSE, reqs, "not_called", "index"), index |-> index]

upload_documents_reraise(stored, documents, remoteOk, succeeded) ==
    LET reqs == << [op |-> "upload_documents", text |-> "", top |-> 0] >>
    IN  IF remoteOk
        THEN [ret |-> Returned(TRUE, reqs, "not_called", "none"),
              docs |-> stored \cup succeeded]
        ELSE [ret |-> Raised(reqs, "not_called", "upload"), docs |-> stored]

\* ai_search.py AISearchManager.upload_documents: succeeded are the documents
\* the service reports as stored
upload_documents(stored, documents, remoteOk, succeeded) ==
    LET reqs == << [op |-> "upload_documents", text |-> "", top |-> 0] >>
    IN  IF remoteOk
        THEN [ret |-> Returned(TRUE, reqs, "not_called", "none"),
              docs |-> stored \cup succeeded]
        ELSE [ret |-> Returned(FALSE, reqs, "not_called", "upload"), docs |-> stored]

\* ai_search.py AISearchManager.delete_documents
delete_documents(stored, ids, remoteOk, succeeded) ==
    LET reqs == << [op |-> "delete_documents", text |-> "", top |-> 0] >>
    IN  IF remoteOk
        THEN [ret |-> Returned(TRUE, reqs, "not_called", "none"),
              docs |-> stored \ succeeded]
        ELSE [ret |-> Returned(FALSE, reqs, "not_called", "delete"), docs |-> stored]

SampleQuery == "artificial intelligence"

NoCall == [fn |-> "none", top |-> 0, res |-> Returned(<< >>, << >>, "not_called", "none")]

SampleInit ==
    /\ call = NoCall
    /\ svcIndex \in {"absent", "existing"}
    /\ svcDocs = {}

HybridSearchCall ==
    /\ \E configOk, embedOk, searchOk \in BOOLEAN, ranking \in Rankings(SampleDocs) :
          call' = [fn |-> "hybrid_search", top |-> HybridSearchTop,
                   res |-> hybrid_search(SampleQuery, configOk, embedOk, searchOk, ranking)]
    /\ UNCHANGED << svcIndex, svcDocs >>

SimpleHybridSearchCall ==
    /\ \E top \in Tops, embedOk, searchOk \in BOOLEAN, ranking \in Rankings(SampleDocs) :
          call' = [fn |-> "simple_hybrid_search", top |-> top,
                   res |-> simple_hybrid_search(SampleQuery, top, embedOk, searchOk, ranking)]
    /\ UNCHANGED << svcIndex, svcDocs >>

SimpleTextSearchCall ==
    /\ \E top \in Tops, searchOk \in BOOLEAN, ranking \in Rankings(SampleDocs) :
          call' = [fn |-> "simple_text_search", top |-> top,
                   res |-> simple_text_search(SampleQuery, top, searchOk, ranking)]
    /\ UNCHANGED << svcIndex, svcDocs >>

SimpleVectorSearchCall ==
    /\ \E top \in Tops, embedOk, searchOk \in BOOLEAN, ranking \in Rankings(SampleDocs) :
          call' = [fn |-> "simple_vector_search", top |-> top,
                   res |-> simple_vector_search(SampleQuery, top, embedOk, searchOk, ranking)]
    /\ UNCHANGED << svcIndex, svcDocs >>

HybridSearchSimpleCall ==
    /\ \E top \in Tops, embedOk, searchOk \in BOOLEAN, ranking \in Rankings(SampleDocs) :
          call' = [fn |-> "hybrid_search_simple", top |-> top,
                   res |-> hybrid_search_simple(SampleQuery, top, embedOk, searchOk, ranking)]
    /\ UNCHANGED << svcIndex, svcDocs >>

StructuredOutputCall ==
    /\ \E remoteOk \in BOOLEAN :
          call' = [fn |-> "inference_structured_output_aoai", top |-> 0,
                   res |-> inference_structured_output_aoai(remoteOk)]
    /\ UNCHANGED << svcIndex, svcDocs >>

ToolInferenceCall ==
    /\ \E remoteOk, hasToolCall \in BOOLEAN :
          call' = [fn |-> "tool_inference_aoai", top |-> 0,
                   res |-> tool_inference_aoai(remoteOk, hasToolCall)]
    /\ UNCHANGED << svcIndex, svcDocs >>

StreamInferenceCall ==
    /\ \E chunks \in SeqsUpTo(ChunkKinds, MaxChunks) :
          \E failAfter \in -1..Len(chunks) :
              call' = [fn |-> "stream_inference_aoai", top |-> 0,
                       res |-> stream_inference_aoai(chunks, failAfter),
                       chunks |-> chunks, failAfter |-> failAfter]
    /\ UNCHANGED << svcIndex, svcDocs >>

\* get_index returns only when the index exists; it raises when the index is
\* absent and may raise for any other reason
CreateSearchIndexCall ==
    /\ \E getOk \in (IF svcIndex = "absent" THEN {FALSE} ELSE BOOLEAN), createOk \in BOOLEAN :
          LET r == create_search_index(svcIndex, getOk, createOk)
          IN  /\ call' = [fn |-> "create_search_index", top |-> 0, res |-> r.ret,
                           existed |-> (svcIndex # "absent")]
              /\ svcIndex' = r.index
    /\ UNCHANGED svcDocs

UploadDocumentsCall ==
    /\ svcIndex # "absent"
    /\ \E documents \in (SUBSET SampleDocIds) \ {{}}, remoteOk \in BOOLEAN :
          \E succeeded \in (IF remoteOk THEN SUBSET documents ELSE {{}}) :
              LET r == upload_documents(svcDocs, documents, remoteOk, succeeded)
              IN  /\ call' = [fn |-> "upload_documents", top |-> 0, res |-> r.ret,
                               documents |-> documents, succeeded |-> succeeded]
                  /\ svcDocs' = r.docs
    /\ UNCHANGED svcIndex

DeleteDocumentsCall ==
    /\ svcIndex # "absent"
    /\ \E ids \in (SUBSET SampleDocIds) \ {{}}, remoteOk \in BOOLEAN :
          \E succeeded \in SUBSET (ids \cap svcDocs) :
              LET r == delete_documents(svcDocs, ids, remoteOk, succeeded)
              IN  /\ call' = [fn |-> "delete_documents", top |-> 0, res |-> r.ret]
                  /\ svcDocs' = r.docs
    /\ UNCHANGED svcIndex

\* ------------------------------------------------------------------------
\* evaluate.py: parsing of a rubric reply in run_evaluations
\* ------------------------------------------------------------------------
MaxReplyLen == 4

\* a reply is a sequence of pieces: the two markers, whitespace, other text
ThoughtsMarker == "thoughts:"
StarsMarker == "stars:"
ReplyPieces == {ThoughtsMarker, StarsMarker, " ", "x"}
Whitespace == {" "}

Replies == SeqsUpTo(ReplyPieces, MaxReplyLen)

VARIABLES
    reply,      \* run_evaluations: result, the content the rubric call returned
    parsed      \* run_evaluations: the thoughts and stars printed for it

parseVars == << reply, parsed >>

\* index of the first / last piece of s equal to m, 0 when there is none
FirstIndex(s, m) ==
    IF \E i \in 1..Len(s) : s[i] = m
    THEN CHOOSE i \in 1..Len(s) : s[i] = m /\ \A j \in 1..(i - 1) : s[j] # m
    ELSE 0

LastIndex(s, m) ==
    IF \E i \in 1..Len(s) : s[i] = m
    THEN CHOOSE i \in 1..Len(s) : s[i] = m /\ \A j \in (i + 1)..Len(s) : s[j] # m
    ELSE 0

\* str.split(m, 1): one part when m does not occur, else the text before the
\* first m and the text after it
Split1(s, m) ==
    LET i == FirstIndex(s, m)
    IN  IF i = 0 THEN << s >>
        ELSE << SubSeq(s, 1, i - 1), SubSeq(s, i + 1, Len(s)) >>

RSplit1(s, m) ==
    LET i == LastIndex(s, m)
    IN  IF i = 0 THEN << s >>
        ELSE << SubSeq(s, 1, i - 1), SubSeq(s, i + 1, Len(s)) >>

\* str.strip()
RECURSIVE LStrip(_)
LStrip(s) == IF s # << >> /\ Head(s) \in Whitespace THEN LStrip(Tail(s)) ELSE s

Strip(s) == Reverse(LStrip(Reverse(LStrip(s))))

ParseStarsLast(result) ==
    LET parts == RSplit1(result, StarsMarker) IN Strip(parts[Len(parts)])

\* stars = result.split('stars:', 1)[-1].strip()
ParseStars(result) ==
    LET parts == Split1(result, StarsMarker) IN Strip(parts[Len(parts)])

ParseThoughtsOrEmpty(result) ==
    IF FirstIndex(result, ThoughtsMarker) = 0 THEN << >>
    ELSE LET parts == Split1(result, ThoughtsMarker)
         IN  Strip(Split1(parts[Len(parts)], StarsMarker)[1])

\* thoughts = result.split('thoughts:', 1)[-1].split('stars:', 1)[0].strip()
ParseThoughts(result) ==
    LET parts == Split1(result, ThoughtsMarker)
    IN  Strip(Split1(parts[Len(parts)], StarsMarker)[1])

\* parts[k] of a Python list: an IndexError unless -len <= k < len
InRange(parts, k) == IF k < 0 THEN -k <= Len(parts) ELSE k < Len(parts)

\* whether one of the subscripts [-1], [0], [-1] of the loop body raises
ParseRaises(result) ==
    LET tparts == Split1(result, ThoughtsMarker)
    IN  ~ /\ InRange(tparts, -1)
          /\ InRange(Split1(tparts[Len(tparts)], StarsMarker), 0)
          /\ InRange(Split1(result, StarsMarker), -1)

NotParsed == [done |-> FALSE, thoughts |-> << >>, stars |-> << >>, raised |-> FALSE]

ParseInit ==
    /\ reply \in Replies
    /\ parsed = NotParsed

\* the body of the loop over evaluations.items() in run_evaluations
ParseResult ==
    /\ ~parsed.done
    /\ parsed' = [done |-> TRUE, thoughts |-> ParseThoughts(reply),
                  stars |-> ParseStars(reply), raised |-> ParseRaises(reply)]
    /\ UNCHANGED reply

\* ------------------------------------------------------------------------
\* evaluate.py: run_evaluation and run_evaluations
\* ------------------------------------------------------------------------
\* a prompt is a sequence of pieces: braces, placeholder names, other text.
\* The placeholder token of a template, {{name}}
Token(name) == << "{", "{", name, "}", "}" >>

\* the pattern run_evaluation searches for, "{name}"
Pattern(name) == << "{", name, "}" >>

\* the input lines that end each rubric template
quality_prompt ==
    << "question: " >> \o Token("question") \o << "context: " >> \o Token("context")
        \o << "answer: " >> \o Token("answer") \o << "thoughts:", "stars:" >>

correctness_prompt ==
    << "question: " >> \o Token("question") \o << "ground_truth: " >> \o Token("ground_truth")
        \o << "answer: " >> \o Token("answer") \o << "thoughts:", "stars:" >>

dont_know_prompt ==
    << "question: " >> \o Token("question") \o << "answer: " >> \o Token("answer")
        \o << "stars:" >>

focus_prompt ==
    << "question: " >> \o Token("question") \o << "context: " >> \o Token("context")
        \o << "answer: " >> \o Token("answer") \o << "thoughts:", "stars:" >>

retrieval_relevance_prompt ==
    << "question: " >> \o Token("question") \o << "context: " >> \o Token("context")
        \o << "stars:" >>

\* str.replace(old, new): every non-overlapping occurrence, left to right
RECURSIVE ReplaceAll(_, _, _)
ReplaceAll(s, old, new) ==
    IF Len(s) < Len(old) THEN s
    ELSE IF SubSeq(s, 1, Len(old)) = old
         THEN new \o ReplaceAll(SubSeq(s, Len(old) + 1, Len(s)), old, new)
         ELSE << Head(s) >> \o ReplaceAll(Tail(s), old, new)

\* run_evaluation: the four replace calls that build formatted_prompt
FormatPrompt(prompty, question, ctx, answer, ground_truth) ==
    ReplaceAll(ReplaceAll(ReplaceAll(ReplaceAll(prompty,
        Pattern("question"), question),
        Pattern("context"), ctx),
        Pattern("answer"), answer),
        Pattern("ground_truth"), ground_truth)

EnabledRubricsWithDontKnow ==
    << [metric |-> "Quality", prompty |-> quality_prompt, gt |-> FALSE],
       [metric |-> "Correctness", prompty |-> correctness_prompt, gt |-> TRUE],
       [metric |-> "Don't Know", prompty |-> dont_know_prompt, gt |-> FALSE],
       [metric |-> "Focus", prompty |-> focus_prompt, gt |-> FALSE],
       [metric |-> "Retrieval Relevance", prompty |-> retrieval_relevance_prompt, gt |-> FALSE] >>

\* run_evaluations: the entries of the evaluations dict literal, in order;
\* gt says whether ground_truth is passed (it defaults to "")
EnabledRubrics ==
    << [metric |-> "Quality", prompty |-> quality_prompt, gt |-> FALSE],
       [metric |-> "Correctness", prompty |-> correctness_prompt, gt |-> TRUE],
       [metric |-> "Focus", prompty |-> focus_prompt, gt |-> FALSE],
       [metric |-> "Retrieval Relevance", prompty |-> retrieval_relevance_prompt, gt |-> FALSE] >>

\* the arguments of run_evaluations: values with and without placeholder text
EvalQuestions == { << "Q" >>, Pattern("context") }
EvalAnswers == { << "A" >>, Pattern("ground_truth") }
EvalGroundTruths == { << "G" >>, << >> }
EvalContexts ==
    { << >>, << [filename |-> "doc1", content |-> << "C" >>] >>,
      << [filename |-> "doc1", content |-> Pattern("answer")],
         [filename |-> "doc2", content |-> << "C" >>] >> }

\* contents the chat model may reply with to a rubric prompt
RubricReplies == { << "thoughts:", "x", "stars:", "x" >>, << "x" >> }

SourceLabel(i) == << "Source 1 - ", "Source 2 - " >>[i]

\* "\n".join([f"Source {i+1} - {item['content']}" for i, item in enumerate(...)])
RECURSIVE JoinSources(_, _)
JoinSources(items, i) ==
    IF i > Len(items) THEN << >>
    ELSE LET line == << SourceLabel(i) >> \o items[i].content
         IN  IF i = Len(items) THEN line
             ELSE line \o << "\n" >> \o JoinSources(items, i + 1)

VARIABLES
    evalArgs,     \* run_evaluations: question, ground_truth, api_response
    evalPc,       \* run_evaluations: running, returned or raised
    evalCalls,    \* the chat model calls issued, with metric and prompt
    evaluations   \* run_evaluations: the evaluations dict, in insertion order

rubricVars == << evalArgs, evalPc, evalCalls, evaluations >>

NoEvalArgs ==
    [question |-> << >>, ground_truth |-> << >>,
     api_response |-> [response |-> << >>, context |-> << >>]]

RubricIdle ==
    /\ evalArgs = NoEvalArgs
    /\ evalPc = "idle"
    /\ evalCalls = << >>
    /\ evaluations = << >>

RubricInit ==
    /\ evalArgs \in [question : EvalQuestions, ground_truth : EvalGroundTruths,
                     api_response : [response : EvalAnswers, context : EvalContexts]]
    /\ evalPc = "running"
    /\ evalCalls = << >>
    /\ evaluations = << >>

\* one entry of the evaluations dict literal: run_evaluation formats the
\* prompt and calls primary_llm.invoke, whose exception is not caught
RunEvaluation ==
    /\ evalPc = "running"
    /\ Len(evalCalls) < Len(EnabledRubrics)
    /\ LET rb == EnabledRubrics[Len(evalCalls) + 1]
           prompt == FormatPrompt(rb.prompty, evalArgs.question,
                                  JoinSources(evalArgs.api_response.context, 1),
                                  evalArgs.api_response.response,
                                  IF rb.gt THEN evalArgs.ground_truth ELSE << >>)
       IN  /\ evalCalls' = Append(evalCalls, [metric |-> rb.metric, prompt |-> prompt])
           /\ \/ /\ evalPc' = "raised"
                 /\ UNCHANGED evaluations
              \/ /\ \E content \in RubricReplies :
                       evaluations' = Append(evaluations,
                                             [metric |-> rb.metric, result |-> content])
                 /\ UNCHANGED evalPc
    /\ UNCHANGED evalArgs

\* run_evaluations: the printing loops, then return evaluations
ReturnEvaluations ==
    /\ evalPc = "running"
    /\ Len(evalCalls) = Len(EnabledRubrics)
    /\ evalPc' = "returned"
    /\ UNCHANGED << evalArgs, evalCalls, evaluations >>

\* ------------------------------------------------------------------------
\* Configuration loading and the first operation of each component
\* ------------------------------------------------------------------------
Components ==
    {"chat_app", "evaluator", "search", "indexing", "blob_storage",
     "document_intelligence", "cosmos_db"}

AoaiVars == {"AOAI_DEPLOYMENT", "AOAI_KEY", "AOAI_ENDPOINT"}

SearchVars == {"AZURE_SEARCH_ENDPOINT", "AZURE_SEARCH_KEY", "AZURE_SEARCH_INDEX"}

CosmosVars ==
    {"COSMOS_HOST", "COSMOS_MASTER_KEY", "COSMOS_DATABASE_ID", "COSMOS_CONTAINER_ID"}

\* the environment values a component cannot work without
RequiredVars(c) ==
    CASE c = "chat_app" -> AoaiVars \cup SearchVars
      [] c = "evaluator" -> AoaiVars
      [] c = "search" -> SearchVars
      [] c = "indexing" -> SearchVars
      [] c = "blob_storage" -> {"STORAGE_ACCOUNT_NAME"}
      [] c = "document_intelligence" -> {"DOCUMENT_INTELLIGENCE_ENDPOINT"}
      [] c = "cosmos_db" -> CosmosVars

VARIABLES
    cfgComponent,   \* the component being started
    cfgEnv,         \* the required values present in the environment
    cfgPhase,       \* start, initialized, operated, or the kind of failure
    cfgRemote       \* the remote service calls attempted so far

configVars == << cfgComponent, cfgEnv, cfgPhase, cfgRemote >>

ConfigIdle ==
    /\ cfgComponent = "none"
    /\ cfgEnv = {}
    /\ cfgPhase = "idle"
    /\ cfgRemote = << >>

ConfigInit ==
    /\ cfgComponent \in Components
    /\ cfgEnv \in SUBSET RequiredVars(cfgComponent)
    /\ cfgPhase = "start"
    /\ cfgRemote = << >>

\* the AzureOpenAI constructor is SDK code: without an endpoint or a key it
\* may raise, the deployment name it does not look at
AoaiClientOutcomes(env) ==
    IF {"AOAI_KEY", "AOAI_ENDPOINT"} \subseteq env
    THEN {"initialized"} ELSE {"initialized", "sdk_error"}

\* app.py module level: os.getenv of the six values, then the two clients;
\* no value is tested
InitChatApp ==
    /\ cfgComponent = "chat_app" /\ cfgPhase = "start"
    /\ cfgPhase' \in AoaiClientOutcomes(cfgEnv)
    /\ UNCHANGED << cfgComponent, cfgEnv, cfgRemote >>

\* app.py chat -> get_context: the translation call comes first, then the
\* SearchClient is built from the search values, then embedding and search
ChatRequestOp ==
    /\ cfgComponent = "chat_app" /\ cfgPhase = "initialized"
    /\ IF SearchVars \subseteq cfgEnv
       THEN /\ cfgPhase' = "operated"
            /\ cfgRemote' = << "chat_completion", "embeddings", "search", "chat_completion" >>
       ELSE /\ cfgPhase' = "request_error"
            /\ cfgRemote' \in { << "chat_completion" >>,
                                << "chat_completion", "embeddings", "search" >> }
    /\ UNCHANGED << cfgComponent, cfgEnv >>

\* evaluate.py module level: os.getenv of the three values, then the clients
InitEvaluator ==
    /\ cfgComponent = "evaluator" /\ cfgPhase = "start"
    /\ cfgPhase' \in AoaiClientOutcomes(cfgEnv)
    /\ UNCHANGED << cfgComponent, cfgEnv, cfgRemote >>

\* evaluate.py main: call_chat_api, then the rubric calls
EvaluatorMainOp ==
    /\ cfgComponent = "evaluator" /\ cfgPhase = "initialized"
    /\ cfgPhase' = IF AoaiVars \subseteq cfgEnv THEN "operated" ELSE "request_error"
    /\ cfgRemote' = << "chat_api", "chat_completion" >>
    /\ UNCHANGED << cfgComponent, cfgEnv >>

\* search.py module level: os.environ.get of the three values, no test
InitSearch ==
    /\ cfgComponent = "search" /\ cfgPhase = "start"
    /\ cfgPhase' = "initialized"
    /\ UNCHANGED << cfgComponent, cfgEnv, cfgRemote >>

\* search.py hybrid_search: get_search_client raises ValueError unless all
\* three values are set, before the embedding and the search call
HybridSearchOp ==
    /\ cfgComponent = "search" /\ cfgPhase = "initialized"
    /\ IF SearchVars \subseteq cfgEnv
       THEN cfgPhase' = "operated" /\ cfgRemote' = << "embeddings", "search" >>
       ELSE cfgPhase' = "config_error" /\ UNCHANGED cfgRemote
    /\ UNCHANGED << cfgComponent, cfgEnv >>

\* indexing.py module level: os.environ.get of the three values, no test
InitIndexing ==
    /\ cfgComponent = "indexing" /\ cfgPhase = "start"
    /\ cfgPhase' = "initialized"
    /\ UNCHANGED << cfgComponent, cfgEnv, cfgRemote >>

\* indexing.py create_search_index: get_search_index_client tests the
\* endpoint and the key, the index name goes untested into get_index
CreateIndexOp ==
    /\ cfgComponent = "indexing" /\ cfgPhase = "initialized"
    /\ IF ~({"AZURE_SEARCH_ENDPOINT", "AZURE_SEARCH_KEY"} \subseteq cfgEnv)
       THEN cfgPhase' = "config_error" /\ UNCHANGED cfgRemote
       ELSE IF "AZURE_SEARCH_INDEX" \in cfgEnv
            THEN cfgPhase' = "operated" /\ cfgRemote' = << "get_index" >>
            ELSE /\ cfgPhase' = "request_error"
                 /\ cfgRemote' \in { << >>, << "get_index", "create_or_update_index" >> }
    /\ UNCHANGED << cfgComponent, cfgEnv >>

\* adls.py ADLSManager.__init__: _load_env_variables raises ValueError
\* without STORAGE_ACCOUNT_NAME
InitBlobStorage ==
    /\ cfgComponent = "blob_storage" /\ cfgPhase = "start"
    /\ cfgPhase' = IF "STORAGE_ACCOUNT_NAME" \in cfgEnv THEN "initialized" ELSE "config_error"
    /\ UNCHANGED << cfgComponent, cfgEnv, cfgRemote >>

\* adls.py ADLSManager.list_blobs_in_folder
ListBlobsOp ==
    /\ cfgComponent = "blob_storage" /\ cfgPhase = "initialized"
    /\ cfgPhase' = "operated"
    /\ cfgRemote' = << "list_blobs" >>
    /\ UNCHANGED << cfgComponent, cfgEnv >>

\* document_intelligence.py DocumentIntelligenceManager.__init__
InitDocumentIntelligence ==
    /\ cfgComponent = "document_intelligence" /\ cfgPhase = "start"
    /\ cfgPhase' = IF "DOCUMENT_INTELLIGENCE_ENDPOINT" \in cfgEnv
                   THEN "initialized" ELSE "config_error"
    /\ UNCHANGED << cfgComponent, cfgEnv, cfgRemote >>

\* document_intelligence.py DocumentIntelligenceManager.read_document
ReadDocumentOp ==
    /\ cfgComponent = "document_intelligence" /\ cfgPhase = "initialized"
    /\ cfgPhase' = "operated"
    /\ cfgRemote' = << "begin_analyze_document" >>
    /\ UNCHANGED << cfgComponent, cfgEnv >>

\* cosmosdb.py CosmosDB.__init__: ValueError unless all four values are set,
\* then the database and the container are created or looked up
InitCosmosDb ==
    /\ cfgComponent = "cosmos_db" /\ cfgPhase = "start"
    /\ IF CosmosVars \subseteq cfgEnv
       THEN cfgPhase' = "initialized"
                /\ cfgRemote' = << "create_database", "create_container" >>
       ELSE cfgPhase' = "config_error" /\ UNCHANGED cfgRemote
    /\ UNCHANGED << cfgComponent, cfgEnv >>

\* cosmosdb.py CosmosDB.create_item
CreateItemOp ==
    /\ cfgComponent = "cosmos_db" /\ cfgPhase = "initialized"
    /\ cfgPhase' = "operated"
    /\ cfgRemote' = Append(cfgRemote, "create_item")
    /\ UNCHANGED << cfgComponent, cfgEnv >>

\* ------------------------------------------------------------------------
\* adls.py / document_processing.py: move_blob
\* ------------------------------------------------------------------------
BlobContainers == {"documents", "processed"}
BlobNames == {"a.pdf", "b.pdf"}

\* a blob location: container and blob name
Locs == BlobContainers \X BlobNames

VARIABLES
    store,      \* what each location holds: absent, data, old or incomplete
    mv,         \* move_blob: source, destination and position
    copy        \* the service-side copy: none, pending, success or failed

blobVars == << store, mv, copy >>

NoMove == [src |-> << "", "" >>, dst |-> << "", "" >>, pc |-> "idle"]

BlobIdle ==
    /\ store = [l \in Locs |-> "absent"]
    /\ mv = NoMove
    /\ copy = "none"

\* the source blob holds the content; the destination may hold an older blob
BlobInit ==
    /\ \E src \in Locs, dst \in Locs, before \in {"absent", "old"} :
          /\ mv = [src |-> src, dst |-> dst, pc |-> "start"]
          /\ store = [l \in Locs |-> IF l = src THEN "data"
                                     ELSE IF l = dst THEN before ELSE "absent"]
    /\ copy = "none"

\* destination_blob.start_copy_from_url(source_blob.url): the service
\* refuses, or finishes the copy at once, or accepts it and copies later;
\* the call returns without waiting for the copy
StartCopy ==
    /\ mv.pc = "start"
    /\ \/ /\ mv' = [mv EXCEPT !.pc = "raised"]
          /\ UNCHANGED << store, copy >>
       \/ /\ mv' = [mv EXCEPT !.pc = "copy_started"]
          /\ store' = [store EXCEPT ![mv.dst] = store[mv.src]]
          /\ copy' = "success"
       \/ /\ mv.src # mv.dst
          /\ mv' = [mv EXCEPT !.pc = "copy_started"]
          /\ store' = [store EXCEPT ![mv.dst] = "incomplete"]
          /\ copy' = "pending"

\* the storage service works on a pending copy: it completes while the
\* source is there and fails once the source is gone
ServiceCopy ==
    /\ copy = "pending"
    /\ IF store[mv.src] = "absent"
       THEN copy' = "failed" /\ UNCHANGED store
       ELSE \/ copy' = "success" /\ store' = [store EXCEPT ![mv.dst] = store[mv.src]]
            \/ copy' = "failed" /\ UNCHANGED store
    /\ UNCHANGED mv

\* source_blob.delete_blob(), right after start_copy_from_url returned
DeleteSource ==
    /\ mv.pc = "copy_started"
    /\ \/ /\ mv' = [mv EXCEPT !.pc = "raised"]
          /\ UNCHANGED store
       \/ /\ mv' = [mv EXCEPT !.pc = "deleted"]
          /\ store' = [store EXCEPT ![mv.src] = "absent"]
    /\ UNCHANGED copy

\* return {"message": message}
ReturnMove ==
    /\ mv.pc = "deleted"
    /\ mv' = [mv EXCEPT !.pc = "returned"]
    /\ UNCHANGED << store, copy >>

\* ------------------------------------------------------------------------
\* getcodebase.py: process_directory and process_file
\* ------------------------------------------------------------------------
\* main(): allowed_extensions
AllowedExtensions == {".py", ".json", ".md", ".env"}

\* the files os.walk yields, in order
WalkNames == << [name |-> "app", ext |-> ".py"], [name |-> "notes", ext |-> ".txt"],
               [name |-> "README", ext |-> ".md"], [name |-> "tests", ext |-> ".json"] >>

FileContents == {"x", "y"}

VARIABLES
    cbFiles,    \* the files of the directory with their contents
    cbIdx,      \* process_directory: the number of files handled
    cbOutput,   \* what has been written to output_file
    cbLast      \* the last process_file call and how it ended

codebaseVars == << cbFiles, cbIdx, cbOutput, cbLast >>

NoProcess == [path |-> "", readOk |-> TRUE, writeOk |-> TRUE, outcome |-> "none"]

CodebaseIdle ==
    /\ cbFiles = << >>
    /\ cbIdx = 0
    /\ cbOutput = << >>
    /\ cbLast = NoProcess

CodebaseInit ==
    /\ \E contents \in [1..Len(WalkNames) -> FileContents] :
          cbFiles = [i \in 1..Len(WalkNames) |->
                        [name |-> WalkNames[i].name, ext |-> WalkNames[i].ext,
                         content |-> contents[i]]]
    /\ cbIdx = 0
    /\ cbOutput = << >>
    /\ cbLast = NoProcess

\* any(file.lower().endswith(ext) for ext in allowed_extensions)
is_allowed_extension(file, allowed_extensions) == file.ext \in allowed_extensions

\* process_file: read the file and write it to the output inside try; the
\* except clause prints the error and falls through
process_file(file, output, readOk, writeOk) ==
    IF readOk /\ writeOk
    THEN [output |-> Append(output, << file.name, file.content >>), outcome |-> "returned"]
    ELSE [output |-> output, outcome |-> "returned"]

\* process_directory: one round of the loop over the files, for a file
\* with an allowed extension
ProcessFileStep ==
    /\ cbIdx < Len(cbFiles)
    /\ is_allowed_extension(cbFiles[cbIdx + 1], AllowedExtensions)
    /\ \E readOk, writeOk \in BOOLEAN :
          LET r == process_file(cbFiles[cbIdx + 1], cbOutput, readOk, writeOk)
          IN  /\ cbOutput' = r.output
              /\ cbLast' = [path |-> cbFiles[cbIdx + 1].name, readOk |-> readOk,
                            writeOk |-> writeOk, outcome |-> r.outcome]
    /\ cbIdx' = cbIdx + 1
    /\ UNCHANGED cbFiles

\* process_directory: one round of the loop, for a file that is filtered out
SkipFileStep ==
    /\ cbIdx < Len(cbFiles)
    /\ ~is_allowed_extension(cbFiles[cbIdx + 1], AllowedExtensions)
    /\ cbIdx' = cbIdx + 1
    /\ UNCHANGED << cbFiles, cbOutput, cbLast >>

\* ------------------------------------------------------------------------
\* evaluate.py: main, the loop over the questions of tests.json
\* ------------------------------------------------------------------------
MaxQuestions == 2

\* the items load_questions may return
QuestionItems ==
    { [question |-> "what does my plan cost", ground_truth |-> "$100"],
      [question |-> "is dental covered", ground_truth |-> "yes"] }

\* what response.json() of call_chat_api may give: the body of /chat, or a
\* JSON document without its keys
ChatApiBodies == {"body", "other_json"}

VARIABLES
    mQuestions,     \* main: questions
    mIdx,           \* main: number of items the for loop has taken
    mPc,            \* main: position in the loop body
    mResponse,      \* main: response
    mRubrics,       \* run_evaluations: rubric calls made for the current item
    mLog            \* the chat API calls, rubric calls and input() prompts so far

mainVars == << mQuestions, mIdx, mPc, mResponse, mRubrics, mLog >>

MainIdle ==
    /\ mQuestions = << >>
    /\ mIdx = 0
    /\ mPc = "idle"
    /\ mResponse = "none"
    /\ mRubrics = 0
    /\ mLog = << >>

\* questions = load_questions('tests.json')
MainInit ==
    /\ mQuestions \in SeqsUpTo(QuestionItems, MaxQuestions)
    /\ mIdx = 0
    /\ mPc = "loop"
    /\ mResponse = "none"
    /\ mRubrics = 0
    /\ mLog = << >>

Event(ev, q, arg, ok) == [ev |-> ev, q |-> q, arg |-> arg, ok |-> ok]

CallChatApiSkipOnError ==
    /\ mPc = "loop" /\ mIdx < Len(mQuestions)
    /\ mIdx' = mIdx + 1
    /\ mRubrics' = 0
    /\ \/ /\ mLog' = Append(mLog, Event("chat_api", mIdx + 1, mQuestions[mIdx + 1].question, FALSE))
          /\ UNCHANGED << mPc, mResponse >>
       \/ /\ mLog' = Append(mLog, Event("chat_api", mIdx + 1, mQuestions[mIdx + 1].question, TRUE))
          /\ mResponse' \in ChatApiBodies
          /\ mPc' = "called"
    /\ UNCHANGED mQuestions

\* the for loop takes the next item; response = call_chat_api(item['question']):
\* requests.post or response.json() may raise, nothing catches it
CallChatApi ==
    /\ mPc = "loop" /\ mIdx < Len(mQuestions)
    /\ mIdx' = mIdx + 1
    /\ mRubrics' = 0
    /\ \/ /\ mLog' = Append(mLog, Event("chat_api", mIdx + 1, mQuestions[mIdx + 1].question, FALSE))
          /\ mPc' = "failed"
          /\ UNCHANGED mResponse
       \/ /\ mLog' = Append(mLog, Event("chat_api", mIdx + 1, mQuestions[mIdx + 1].question, TRUE))
          /\ mResponse' \in ChatApiBodies
          /\ mPc' = "called"
    /\ UNCHANGED mQuestions

\* run_evaluations with a response that lacks 'context' or 'response': the
\* subscript raises KeyError before the first rubric call
EvaluateOtherJson ==
    /\ mPc = "called" /\ mResponse = "other_json"
    /\ mPc' = "failed"
    /\ UNCHANGED << mQuestions, mIdx, mResponse, mRubrics, mLog >>

\* run_evaluations: the next entry of the evaluations dict literal; an
\* exception of primary_llm.invoke leaves run_evaluations and main
RubricCall ==
    /\ mPc = "called" /\ mResponse = "body"
    /\ mRubrics < Len(EnabledRubrics)
    /\ mRubrics' = mRubrics + 1
    /\ \/ /\ mLog' = Append(mLog, Event("rubric", mIdx, EnabledRubrics[mRubrics + 1].metric, FALSE))
          /\ mPc' = "failed"
       \/ /\ mLog' = Append(mLog, Event("rubric", mIdx, EnabledRubrics[mRubrics + 1].metric, TRUE))
          /\ mPc' = IF mRubrics + 1 = Len(EnabledRubrics) THEN "evaluated" ELSE "called"
    /\ UNCHANGED << mQuestions, mIdx, mResponse >>

\* input("Press Enter to continue to the next question..."): returns when
\* the operator presses Enter, raises EOFError or KeyboardInterrupt otherwise
WaitForOperator ==
    /\ mPc = "evaluated"
    /\ \/ /\ mLog' = Append(mLog, Event("input", mIdx, "", FALSE))
          /\ mPc' = "failed"
       \/ /\ mLog' = Append(mLog, Event("input", mIdx, "", TRUE))
          /\ mPc' = "loop"
    /\ UNCHANGED << mQuestions, mIdx, mResponse, mRubrics >>

\* the for loop is exhausted: main returns
MainReturn ==
    /\ mPc = "loop" /\ mIdx = Len(mQuestions)
    /\ mPc' = "done"
    /\ UNCHANGED << mQuestions, mIdx, mResponse, mRubrics, mLog >>

\* ------------------------------------------------------------------------
\* cosmosdb.py: CosmosDB.update_item, called by two clients of a container
\* ------------------------------------------------------------------------
Callers == {"c1", "c2"}

ItemIds == {"i1", "i2"}

\* the fields of an item besides its id, and the values updates may carry
DataFields == {"a", "b"}

UpdateValues == {"u1", "u2"}

NoItem == [id |-> "none", a |-> "none", b |-> "none"]

\* the updates argument: a dict over some of the data fields
UpdateDicts == UNION { [S -> UpdateValues] : S \in (SUBSET DataFields) \ {{}} }

VARIABLES
    cStore,     \* the container: the item stored under each id, or NoItem
    cCall,      \* each caller's update_item call: position, arguments, locals
    cWrites     \* the upsert requests the container has applied, in order

cosmosVars == << cStore, cCall, cWrites >>

NoUpdate ==
    [pc |-> "idle", item_id |-> "none", updates |-> << >>, read |-> NoItem,
     ret |-> NoItem, fault |-> "none"]

CosmosIdle ==
    /\ cStore = [i \in ItemIds |-> NoItem]
    /\ cCall = [c \in Callers |-> NoUpdate]
    /\ cWrites = << >>

\* the container holds an item under some of the ids
CosmosInit ==
    /\ \E present \in (SUBSET ItemIds) \ {{}} :
          cStore = [i \in ItemIds |->
                       IF i \in present THEN [id |-> i, a |-> "a0", b |-> "b0"] ELSE NoItem]
    /\ cCall = [c \in Callers |-> NoUpdate]
    /\ cWrites = << >>

MergeKeepingExisting(item, updates) == item

\* item.update(updates)
Merge(item, updates) ==
    [f \in DOMAIN item |-> IF f \in DOMAIN updates THEN updates[f] ELSE item[f]]

\* a client calls update_item(item_id, updates, partition_key)
StartUpdate(c) ==
    /\ cCall[c].pc = "idle"
    /\ \E i \in ItemIds, u \in UpdateDicts :
          cCall' = [cCall EXCEPT ![c] = [@ EXCEPT !.pc = "reading", !.item_id = i, !.updates = u]]
    /\ UNCHANGED << cStore, cWrites >>

\* item = self.read_item(item_id, partition_key): CosmosResourceNotFoundError
\* when there is no such item, another CosmosHttpResponseError when the
\* request fails; cosmos_error_handler logs and re-raises
ReadItem(c) ==
    /\ cCall[c].pc = "reading"
    /\ IF cStore[cCall[c].item_id] = NoItem
       THEN cCall' = [cCall EXCEPT ![c] = [@ EXCEPT !.pc = "raised", !.fault = "not_found"]]
       ELSE \/ cCall' = [cCall EXCEPT ![c] = [@ EXCEPT !.pc = "raised", !.fault = "read"]]
            \/ cCall' = [cCall EXCEPT ![c] =
                            [@ EXCEPT !.pc = "read", !.read = cStore[cCall[c].item_id]]]
    /\ UNCHANGED << cStore, cWrites >>

\* item.update(updates); updated_item = self.container.upsert_item(body=item);
\* return updated_item
UpsertItem(c) ==
    /\ cCall[c].pc = "read"
    /\ LET item == Merge(cCall[c].read, cCall[c].updates)
       IN  \/ /\ cCall' = [cCall EXCEPT ![c] = [@ EXCEPT !.pc = "raised", !.fault = "upsert"]]
              /\ UNCHANGED << cStore, cWrites >>
           \/ /\ cStore' = [cStore EXCEPT ![item.id] = item]
              /\ cWrites' = Append(cWrites, [by |-> c, item |-> item])
              /\ cCall' = [cCall EXCEPT ![c] = [@ EXCEPT !.pc = "returned", !.ret = item]]

\* ------------------------------------------------------------------------
\* Specifications
\* ------------------------------------------------------------------------
vars == << pc, user_input, search_query, query_vector, results, context,
           llm_input, response, final_response, calls, failed,
           call, svcIndex, svcDocs, reply, parsed,
           evalArgs, evalPc, evalCalls, evaluations,
           cfgComponent, cfgEnv, cfgPhase, cfgRemote,
           store, mv, copy, cbFiles, cbIdx, cbOutput, cbLast,
           mQuestions, mIdx, mPc, mResponse, mRubrics, mLog,
           cStore, cCall, cWrites >>

SampleIdle == call = NoCall /\ svcIndex = "absent" /\ svcDocs = {}

ParseIdle == reply = << >> /\ parsed = NotParsed

otherChatVars == << sampleVars, parseVars, rubricVars, configVars, blobVars, codebaseVars, mainVars, cosmosVars >>

otherSampleVars == << chatVars, parseVars, rubricVars, configVars, blobVars, codebaseVars, mainVars, cosmosVars >>

otherParseVars == << chatVars, sampleVars, rubricVars, configVars, blobVars, codebaseVars, mainVars, cosmosVars >>

otherRubricVars == << chatVars, sampleVars, parseVars, configVars, blobVars, codebaseVars, mainVars, cosmosVars >>

otherConfigVars == << chatVars, sampleVars, parseVars, rubricVars, blobVars, codebaseVars, mainVars, cosmosVars >>

otherBlobVars == << chatVars, sampleVars, parseVars, rubricVars, configVars, codebaseVars, mainVars, cosmosVars >>

otherCodebaseVars == << chatVars, sampleVars, parseVars, rubricVars, configVars, blobVars, mainVars, cosmosVars >>

Init == ChatInit /\ SampleIdle /\ ParseIdle /\ RubricIdle /\ ConfigIdle /\ BlobIdle /\ CodebaseIdle /\ MainIdle /\ CosmosIdle

Next ==
    \E r \in Reqs :
        \/ Receive(r) /\ UNCHANGED otherChatVars
        \/ Translate(r) /\ UNCHANGED otherChatVars
        \/ Embed(r) /\ UNCHANGED otherChatVars
        \/ Search(r) /\ UNCHANGED otherChatVars
        \/ Answer(r) /\ UNCHANGED otherChatVars
        \/ Respond(r) /\ UNCHANGED otherChatVars

Spec == Init /\ [][Next]_vars

SamplesInit == ChatInit /\ SampleInit /\ ParseIdle /\ RubricIdle /\ ConfigIdle /\ BlobIdle /\ CodebaseIdle /\ MainIdle /\ CosmosIdle

SamplesNext ==
    \/ HybridSearchCall /\ UNCHANGED otherSampleVars
    \/ SimpleHybridSearchCall /\ UNCHANGED otherSampleVars
    \/ SimpleTextSearchCall /\ UNCHANGED otherSampleVars
    \/ SimpleVectorSearchCall /\ UNCHANGED otherSampleVars
    \/ HybridSearchSimpleCall /\ UNCHANGED otherSampleVars
    \/ StructuredOutputCall /\ UNCHANGED otherSampleVars
    \/ ToolInferenceCall /\ UNCHANGED otherSampleVars
    \/ StreamInferenceCall /\ UNCHANGED otherSampleVars
    \/ CreateSearchIndexCall /\ UNCHANGED otherSampleVars
    \/ UploadDocumentsCall /\ UNCHANGED otherSampleVars
    \/ DeleteDocumentsCall /\ UNCHANGED otherSampleVars

SpecSamples == SamplesInit /\ [][SamplesNext]_vars

EvalInit == ChatInit /\ SampleIdle /\ ParseInit /\ RubricIdle /\ ConfigIdle /\ BlobIdle /\ CodebaseIdle /\ MainIdle /\ CosmosIdle

EvalNext == ParseResult /\ UNCHANGED otherParseVars

SpecEval == EvalInit /\ [][EvalNext]_vars

RubricSpecInit == ChatInit /\ SampleIdle /\ ParseIdle /\ RubricInit /\ ConfigIdle /\ BlobIdle /\ CodebaseIdle /\ MainIdle /\ CosmosIdle

RubricNext ==
    \/ RunEvaluation /\ UNCHANGED otherRubricVars
    \/ ReturnEvaluations /\ UNCHANGED otherRubricVars

SpecRubric == RubricSpecInit /\ [][RubricNext]_vars

ConfigSpecInit == ChatInit /\ SampleIdle /\ ParseIdle /\ RubricIdle /\ ConfigInit /\ BlobIdle /\ CodebaseIdle /\ MainIdle /\ CosmosIdle

ConfigNext ==
    \/ InitChatApp /\ UNCHANGED otherConfigVars
    \/ ChatRequestOp /\ UNCHANGED otherConfigVars
    \/ InitEvaluator /\ UNCHANGED otherConfigVars
    \/ EvaluatorMainOp /\ UNCHANGED otherConfigVars
    \/ InitSearch /\ UNCHANGED otherConfigVars
    \/ HybridSearchOp /\ UNCHANGED otherConfigVars
    \/ InitIndexing /\ UNCHANGED otherConfigVars
    \/ CreateIndexOp /\ UNCHANGED otherConfigVars
    \/ InitBlobStorage /\ UNCHANGED otherConfigVars
    \/ ListBlobsOp /\ UNCHANGED otherConfigVars
    \/ InitDocumentIntelligence /\ UNCHANGED otherConfigVars
    \/ ReadDocumentOp /\ UNCHANGED otherConfigVars
    \/ InitCosmosDb /\ UNCHANGED otherConfigVars
    \/ CreateItemOp /\ UNCHANGED otherConfigVars

SpecConfig == ConfigSpecInit /\ [][ConfigNext]_vars

BlobSpecInit == ChatInit /\ SampleIdle /\ ParseIdle /\ RubricIdle /\ ConfigIdle /\ BlobInit /\ CodebaseIdle /\ MainIdle /\ CosmosIdle

BlobNext ==
    \/ StartCopy /\ UNCHANGED otherBlobVars
    \/ ServiceCopy /\ UNCHANGED otherBlobVars
    \/ DeleteSource /\ UNCHANGED otherBlobVars
    \/ ReturnMove /\ UNCHANGED otherBlobVars

SpecBlob == BlobSpecInit /\ [][BlobNext]_vars

CodebaseSpecInit == ChatInit /\ SampleIdle /\ ParseIdle /\ RubricIdle /\ ConfigIdle /\ BlobIdle /\ CodebaseInit /\ MainIdle /\ CosmosIdle

CodebaseNext ==
    \/ ProcessFileStep /\ UNCHANGED otherCodebaseVars
    \/ SkipFileStep /\ UNCHANGED otherCodebaseVars

SpecCodebase == CodebaseSpecInit /\ [][CodebaseNext]_vars

otherMainVars == << chatVars, sampleVars, parseVars, rubricVars, configVars, blobVars, codebaseVars, cosmosVars >>

otherCosmosVars == << chatVars, sampleVars, parseVars, rubricVars, configVars, blobVars, codebaseVars, mainVars >>

MainSpecInit == ChatInit /\ SampleIdle /\ ParseIdle /\ RubricIdle /\ ConfigIdle /\ BlobIdle /\ CodebaseIdle /\ MainInit /\ CosmosIdle

MainNext ==
    \/ CallChatApi /\ UNCHANGED otherMainVars
    \/ EvaluateOtherJson /\ UNCHANGED otherMainVars
    \/ RubricCall /\ UNCHANGED otherMainVars
    \/ WaitForOperator /\ UNCHANGED otherMainVars
    \/ MainReturn /\ UNCHANGED otherMainVars

SpecMain == MainSpecInit /\ [][MainNext]_vars

CosmosSpecInit == ChatInit /\ SampleIdle /\ ParseIdle /\ RubricIdle /\ ConfigIdle /\ BlobIdle /\ CodebaseIdle /\ MainIdle /\ CosmosInit

CosmosNext ==
    \E c \in Callers :
        \/ StartUpdate(c) /\ UNCHANGED otherCosmosVars
        \/ ReadItem(c) /\ UNCHANGED otherCosmosVars
        \/ UpsertItem(c) /\ UNCHANGED otherCosmosVars

SpecCosmos == CosmosSpecInit /\ [][CosmosNext]_vars

\* ------------------------------------------------------------------------
\* Properties of the /chat endpoint (Spec)
\* ------------------------------------------------------------------------
StageCount(p) ==
    CASE p \in {"idle", "received"} -> 0
      [] p = "query_translated" -> 1
      [] p = "embedded" -> 2
      [] p = "context_retrieved" -> 3
      [] p \in {"answer_generated", "responded"} -> 4

\* C1: the stages of a request happen in the order translate, embed, search,
\* answer, each exactly once and each only after the previous one returned,
\* and a body is sent only after answer generation has completed.
C1_StageOrder ==
    \A r \in Reqs :
        /\ IsPrefix(Stages(r), StageOrder)
        /\ pc[r] # "aborted" => Len(calls[r]) = StageCount(pc[r])
        /\ (final_response[r] # NoBody) <=> (pc[r] = "responded")
        /\ pc[r] = "responded" =>
              /\ response[r] \in AnswerReplies
              /\ final_response[r].response = response[r]

C1_Witness == \E r \in Reqs : pc[r] = "responded" /\ Stages(r) = StageOrder

\* C2: when the remote call of a stage fails the request is aborted: the
\* failed stage is the last call issued, it was issued once, no later stage
\* is called and no body, not even a partial one, is returned.
C2_FailureAborts ==
    \A r \in Reqs :
        failed[r] # None =>
            /\ pc[r] = "aborted"
            /\ final_response[r] = NoBody
            /\ IsPrefix(Stages(r), StageOrder)
            /\ Stages(r)[Len(calls[r])] = failed[r]

C2_Witness ==
    \E r \in Reqs : failed[r] = "answer" /\ context[r] # << >> /\ pc[r] = "aborted"

\* C3: when embedding generation fails, retrieval returns an empty context
\* instead of raising, no search request is issued, and the request is not
\* aborted but goes on to respond with an empty context.
C3_Original ==
    \A r \in Reqs :
        failed[r] = "embed" =>
            /\ pc[r] \in {"context_retrieved", "answer_generated", "responded"}
            /\ context[r] = << >>
            /\ \A i \in 1..Len(calls[r]) : calls[r][i].stage # "search"

\* C6: the context of the response is exactly the list the prompt of the
\* answer call was built from, which is what the search returned, item for
\* item and in the same order.
C6_ContextEchoed ==
    \A r \in Reqs :
        pc[r] = "responded" =>
            /\ Len(final_response[r].context) = Len(results[r])
            /\ \A i \in 1..Len(results[r]) :
                  /\ final_response[r].context[i].filename = results[r][i]["id"]
                  /\ final_response[r].context[i].content = results[r][i]["content"]
            /\ calls[r][4].arg = LlmInput(final_response[r].context, user_input[r])

C6_Witness ==
    \E r \in Reqs : pc[r] = "responded" /\ Len(final_response[r].context) = 2

\* C8: when the chat provider fails during query translation the request is
\* aborted: the user question is not used as the search query and neither an
\* embedding nor a search call is made.
C8_TranslationFailurePropagates ==
    \A r \in Reqs :
        failed[r] = "translate" =>
            /\ pc[r] = "aborted"
            /\ search_query[r] = None
            /\ Stages(r) = << "translate" >>
            /\ final_response[r] = NoBody

C8_Witness ==
    \E r \in Reqs : failed[r] = "translate" /\ user_input[r] # ""

\* C9: whenever query translation succeeds, the search query handed to the
\* embedding call and to the search call is a non-empty string.
C9_Original ==
    \A r \in Reqs :
        \A i \in 1..Len(calls[r]) :
            /\ calls[r][i].stage = "embed" => calls[r][i].arg # ""
            /\ calls[r][i].stage = "search" => calls[r][i].arg[1] # ""

\* ------------------------------------------------------------------------
\* Properties of the reusable samples (SpecSamples)
\* ------------------------------------------------------------------------
EmbeddingRetrievals ==
    {"hybrid_search", "simple_hybrid_search", "simple_vector_search",
     "hybrid_search_simple"}

Retrievals == EmbeddingRetrievals \cup {"simple_text_search"}

IssuedSearch(c) == \E i \in 1..Len(c.res.requests) : c.res.requests[i].op = "search"

\* C4: hybrid_search, simple_hybrid_search, simple_vector_search and
\* hybrid_search_simple return an empty list, raise nothing and issue no
\* search request whenever embedding generation for the query fails.
C4_EmbeddingFailureEmpty ==
    (call.fn \in EmbeddingRetrievals /\ call.res.embedding = "failed") =>
        /\ call.res.outcome = "returned"
        /\ call.res.value = << >>
        /\ ~IssuedSearch(call)

C4_Witness ==
    /\ call.fn = "hybrid_search_simple"
    /\ call.res.embedding = "failed"
    /\ call.res.outcome = "returned"

HasScore(item) == "score" \in DOMAIN item \/ "@search.score" \in DOMAIN item

ScoreOf(item) == IF "score" \in DOMAIN item THEN item["score"] ELSE item["@search.score"]

\* C7: every retrieval returns at most k results (k = 3 by default, or the
\* caller's top argument), each carrying a score, in non-increasing score
\* order as the provider returned them.
C7_Original ==
    (call.fn \in Retrievals /\ call.res.outcome = "returned") =>
        /\ Len(call.res.value) <= call.top
        /\ \A i \in 1..Len(call.res.value) : HasScore(call.res.value[i])
        /\ \A i \in 1..(Len(call.res.value) - 1) :
              ScoreOf(call.res.value[i]) >= ScoreOf(call.res.value[i + 1])

\* ------------------------------------------------------------------------
\* Properties of the result parsing (SpecEval)
\* ------------------------------------------------------------------------
\* index of the first piece after position t equal to m, 0 when there is none
FirstIndexAfter(s, t, m) ==
    IF \E i \in (t + 1)..Len(s) : s[i] = m
    THEN CHOOSE i \in (t + 1)..Len(s) :
            s[i] = m /\ \A j \in (t + 1)..(i - 1) : s[j] # m
    ELSE 0

\* the reply has a thoughts: marker with a stars: marker somewhere after it
HasThoughtsThenStars(s) ==
    FirstIndex(s, ThoughtsMarker) > 0
        /\ FirstIndexAfter(s, FirstIndex(s, ThoughtsMarker), StarsMarker) > 0

ReqState(r) ==
    << pc[r], user_input[r], search_query[r], query_vector[r], results[r],
       context[r], llm_input[r], response[r], final_response[r], calls[r],
       failed[r] >>

\* C14: concurrent requests do not interfere: what a request sends and
\* returns is fixed by its own user_input and by the replies to its own
\* calls, and a step of one request leaves the state of every other request
\* as it was.
C14_NoInterference ==
    /\ [](\A r \in Reqs :
            /\ Len(calls[r]) >= 1 => calls[r][1].arg = user_input[r]
            /\ Len(calls[r]) >= 2 => calls[r][2].arg = search_query[r]
            /\ Len(calls[r]) >= 3 =>
                  calls[r][3].arg = << search_query[r], << "vec", search_query[r] >> >>
            /\ Len(calls[r]) >= 4 =>
                  calls[r][4].arg = LlmInput(FormatContext(results[r]), user_input[r])
            /\ pc[r] = "responded" =>
                  final_response[r] =
                      [response |-> response[r], context |-> FormatContext(results[r])])
    /\ [][\A r, q \in Reqs :
            (ReqState(r)' # ReqState(r) /\ ReqState(q)' # ReqState(q)) => r = q]_vars

C14_Witness ==
    \E r, q \in Reqs :
        /\ r # q
        /\ pc[r] = "responded" /\ pc[q] = "responded"
        /\ results[r] # results[q]
        /\ user_input[r] # user_input[q]

\* C15: when the search returns no result the request is not an error: the
\* answer call is made once, with an empty context text, and the request
\* responds with an empty context list.
C15_EmptyContextAnswered ==
    \A r \in Reqs :
        (Len(calls[r]) >= 3 /\ failed[r] # "search" /\ results[r] = << >>) =>
            /\ pc[r] = "aborted" => (failed[r] = "answer" /\ Len(calls[r]) = 4)
            /\ Len(calls[r]) = 4 =>
                  calls[r][4].arg = << "Context: ", "\n\nUser Input: ", user_input[r] >>
            /\ pc[r] = "responded" =>
                  (final_response[r].context = << >> /\ Stages(r) = StageOrder)

C15_Witness ==
    \E r \in Reqs : pc[r] = "responded" /\ results[r] = << >>

\* ------------------------------------------------------------------------
\* Properties of the evaluation rubrics (SpecRubric)
\* ------------------------------------------------------------------------
PlaceholderNames == {"question", "context", "answer", "ground_truth"}

\* the template with every whole token {{name}} replaced by the value of name
RECURSIVE SubstituteTokens(_, _)
SubstituteTokens(s, value) ==
    IF s = << >> THEN << >>
    ELSE IF Len(s) >= 5 /\ s[3] \in PlaceholderNames /\ SubSeq(s, 1, 5) = Token(s[3])
         THEN value[s[3]] \o SubstituteTokens(SubSeq(s, 6, Len(s)), value)
         ELSE << Head(s) >> \o SubstituteTokens(Tail(s), value)

\* C11: the prompt sent for a rubric is its template with every whole token
\* {{question}}, {{context}}, {{answer}}, {{ground_truth}} replaced by the
\* argument, nothing of the token left behind.
C11_Original ==
    \A i \in 1..Len(evalCalls) :
        evalCalls[i].prompt =
            SubstituteTokens(EnabledRubrics[i].prompty,
                [n \in PlaceholderNames |->
                    CASE n = "question" -> evalArgs.question
                      [] n = "context" -> JoinSources(evalArgs.api_response.context, 1)
                      [] n = "answer" -> evalArgs.api_response.response
                      [] n = "ground_truth" ->
                            IF EnabledRubrics[i].gt THEN evalArgs.ground_truth ELSE << >>])

CallMetrics == [i \in 1..Len(evalCalls) |-> evalCalls[i].metric]

ResultMetrics == [i \in 1..Len(evaluations) |-> evaluations[i].metric]

\* C12: the chat model is called once per enabled rubric, in the order
\* Quality, Correctness, Focus, Retrieval Relevance, one call after the
\* other; the don't-know rubric is never called; the returned result holds
\* one entry per enabled rubric.
C12_RubricOrder ==
    /\ IsPrefix(CallMetrics, << "Quality", "Correctness", "Focus", "Retrieval Relevance" >>)
    /\ IsPrefix(ResultMetrics, CallMetrics)
    /\ Len(evaluations) >= Len(evalCalls) - 1
    /\ evalPc = "running" => Len(evaluations) = Len(evalCalls)
    /\ evalPc = "returned" =>
          ResultMetrics = << "Quality", "Correctness", "Focus", "Retrieval Relevance" >>

C12_Witness == evalPc = "returned" /\ Len(evaluations) = 4

\* ------------------------------------------------------------------------
\* Properties of the configuration loading (SpecConfig)
\* ------------------------------------------------------------------------
\* C13: when a required configuration value is absent, initialization fails
\* with a configuration error before any remote service call is attempted.
C13_Original ==
    (RequiredVars(cfgComponent) \ cfgEnv # {}) =>
        /\ cfgPhase \in {"start", "initialized", "config_error", "sdk_error"}
        /\ cfgRemote = << >>

\* ------------------------------------------------------------------------
\* More properties of the reusable samples (SpecSamples)
\* ------------------------------------------------------------------------
IssuedCreate(c) ==
    \E i \in 1..Len(c.res.requests) : c.res.requests[i].op = "create_or_update_index"

\* C16: create_search_index never raises; it returns True when the index
\* already exists, issuing no create request, or was created by this call,
\* and False when creation fails.
C16_Original ==
    call.fn = "create_search_index" =>
        /\ call.res.outcome = "returned"
        /\ call.existed => (call.res.value = TRUE /\ ~IssuedCreate(call))
        /\ (call.res.value = FALSE) <=> (call.res.fault = "index")

\* C17: upload_documents returns True if and only if every document of the
\* batch was stored, and returns False without raising in every other case.
C17_Original ==
    call.fn = "upload_documents" =>
        /\ call.res.outcome = "returned"
        /\ (call.res.value = TRUE) <=> (call.succeeded = call.documents)

ContentChunks == {"he", "llo"}

\* C19: stream_inference_aoai returns the content deltas of the stream
\* concatenated in arrival order, chunks without choices or content adding
\* nothing, and returns the empty string when an error occurs at any point,
\* also after some chunks were received.
C19_StreamContent ==
    call.fn = "stream_inference_aoai" =>
        /\ call.res.outcome = "returned"
        /\ call.failAfter = -1 =>
              call.res.value = SelectSeq(call.chunks, LAMBDA c : c \in ContentChunks)
        /\ call.failAfter # -1 => call.res.value = << >>

C19_Witness ==
    /\ call.fn = "stream_inference_aoai"
    /\ call.failAfter >= 1
    /\ call.chunks[1] \in ContentChunks
    /\ call.res.outcome = "returned"

\* ------------------------------------------------------------------------
\* Properties of move_blob (SpecBlob)
\* ------------------------------------------------------------------------
\* C18: after move_blob returned the destination holds the content and the
\* source is gone, and in no state is the content absent from both places.
C18_Original ==
    /\ mv.pc = "returned" => (store[mv.dst] = "data" /\ (mv.src # mv.dst => store[mv.src] = "absent"))
    /\ mv.pc # "idle" => (store[mv.src] = "data" \/ store[mv.dst] = "data")

\* ------------------------------------------------------------------------
\* Properties of process_file (SpecCodebase)
\* ------------------------------------------------------------------------
\* C20: process_file raises to its caller when reading the input file or
\* writing to the output file fails.
C20_Original ==
    (cbLast.outcome # "none" /\ ~(cbLast.readOk /\ cbLast.writeOk)) =>
        cbLast.outcome = "raised"

\* ------------------------------------------------------------------------
\* More properties of the /chat endpoint (Spec)
\* ------------------------------------------------------------------------
\* the "identifier: content" lines of the retrieved documents, newline-joined
RECURSIVE PairLines(_)
PairLines(res) ==
    IF res = << >> THEN << >>
    ELSE << res[1]["id"], ": ", res[1]["content"] >>
            \o (IF Len(res) = 1 THEN << >> ELSE << "\n" >> \o PairLines(Tail(res)))

\* C21: within one request the text that is embedded and the keyword search
\* text are the translated query, the vector of the search is the embedding
\* of the translated query, and the answer call gets the original user
\* question with the context as newline-joined "identifier: content" pairs
\* in retrieval order.
C21_TranslatedQueryRetrieves ==
    \A r \in Reqs :
        /\ Len(calls[r]) >= 2 =>
              (search_query[r] \in TranslationReplies /\ calls[r][2].arg = search_query[r])
        /\ Len(calls[r]) >= 3 =>
              /\ calls[r][3].arg[1] = search_query[r]
              /\ calls[r][3].arg[2] = Embedding(search_query[r])
        /\ Len(calls[r]) >= 4 =>
              calls[r][4].arg =
                  << "Context: " >> \o PairLines(results[r])
                      \o << "\n\nUser Input: ", user_input[r] >>

C21_Witness ==
    \E r \in Reqs :
        /\ pc[r] = "responded"
        /\ search_query[r] # user_input[r]
        /\ Len(results[r]) = 2

\* ------------------------------------------------------------------------
\* More properties of the result parsing (SpecEval)
\* ------------------------------------------------------------------------
\* C22: for any reply the parsing of run_evaluations raises nothing and
\* reports no fallback value: without a stars: marker the rating is the
\* whole reply trimmed, and without a thoughts: marker the rationale is
\* everything before the first stars: marker, trimmed.
C22_ParsingTotal ==
    parsed.done =>
        LET f == FirstIndex(reply, StarsMarker)
        IN  /\ ~parsed.raised
            /\ f = 0 => parsed.stars = Strip(reply)
            /\ FirstIndex(reply, ThoughtsMarker) = 0 =>
                  parsed.thoughts =
                      Strip(IF f = 0 THEN reply ELSE SubSeq(reply, 1, f - 1))

C22_Witness ==
    /\ parsed.done
    /\ FirstIndex(reply, ThoughtsMarker) = 0
    /\ FirstIndex(reply, StarsMarker) > 1
    /\ parsed.thoughts # << >>

\* ------------------------------------------------------------------------
\* Properties of the evaluator's main loop (SpecMain)
\* ------------------------------------------------------------------------
ChatApiCalls == SelectSeq(mLog, LAMBDA e : e.ev = "chat_api")

\* the events of one fully handled question q, ending at position p of the log
HandledUpTo(p, q) ==
    /\ p > Len(EnabledRubrics) + 1
    /\ mLog[p - Len(EnabledRubrics) - 1].ev = "chat_api"
    /\ mLog[p - Len(EnabledRubrics) - 1].q = q
    /\ \A k \in 1..Len(EnabledRubrics) :
          LET e == mLog[p - Len(EnabledRubrics) - 1 + k]
          IN  e.ev = "rubric" /\ e.q = q /\ e.ok /\ e.arg = EnabledRubrics[k].metric

\* C23: main takes the questions in file order; for each it calls the chat
\* API once, then runs the rubric calls on that response, then waits for the
\* operator; the chat API call for the next question comes only after the
\* operator acknowledged the previous one; a failed chat API call or rubric
\* call ends the run, no later question being handled.
C23_MainLoopOrder ==
    /\ [](/\ \A k \in 1..Len(ChatApiCalls) :
                ChatApiCalls[k].q = k /\ ChatApiCalls[k].arg = mQuestions[k].question
          /\ \A p \in 1..Len(mLog) :
                /\ (mLog[p].ev = "chat_api" /\ p > 1) =>
                      (mLog[p - 1].ev = "input" /\ mLog[p - 1].ok
                          /\ mLog[p - 1].q = mLog[p].q - 1)
                /\ mLog[p].ev = "rubric" =>
                      (p > 1 /\ mLog[p - 1].ok /\ mLog[p - 1].q = mLog[p].q
                          /\ mLog[p - 1].ev \in {"chat_api", "rubric"})
                /\ mLog[p].ev = "input" => HandledUpTo(p, mLog[p].q)
                /\ ~mLog[p].ok => (p = Len(mLog) /\ mPc = "failed")
          /\ mPc = "done" => Len(ChatApiCalls) = Len(mQuestions))
    /\ [][mPc # "failed"]_mainVars

C23_Witness ==
    /\ mPc = "done"
    /\ Len(mQuestions) = 2
    /\ Len(mLog) = 2 * (Len(EnabledRubrics) + 2)

\* ------------------------------------------------------------------------
\* Properties of index creation (SpecSamples)
\* ------------------------------------------------------------------------
\* C24: create_search_index creates the index only if it does not exist:
\* a call made while the index exists issues no create-or-update request
\* and leaves the index definition as it was, whatever get_index answered.
C24_Original ==
    [][(svcIndex # "absent" /\ call'.fn = "create_search_index") =>
          (svcIndex' = svcIndex /\ ~IssuedCreate(call'))]_vars

\* ------------------------------------------------------------------------
\* Properties of CosmosDB.update_item (SpecCosmos)
\* ------------------------------------------------------------------------
WroteBy(c) == \E i \in 1..Len(cWrites) : cWrites[i].by = c

\* C25: update_item stores and returns the item it read with the updates
\* merged over it, every field not named in updates as it was read; when
\* there is no item with that id the read error propagates and the call
\* creates and modifies nothing.
C25_UpdateMerges ==
    /\ [](\A c \in Callers :
            /\ cCall[c].pc = "returned" =>
                  /\ cCall[c].ret.id = cCall[c].item_id
                  /\ \A f \in DataFields :
                        cCall[c].ret[f] =
                            IF f \in DOMAIN cCall[c].updates
                            THEN cCall[c].updates[f] ELSE cCall[c].read[f]
                  /\ \E i \in 1..Len(cWrites) :
                        cWrites[i] = [by |-> c, item |-> cCall[c].ret]
            /\ cCall[c].pc = "raised" => ~WroteBy(c))
    /\ [][\A c \in Callers :
            /\ (cCall[c].pc = "reading" /\ cStore[cCall[c].item_id] = NoItem
                    /\ cCall'[c] # cCall[c]) =>
                  /\ cCall'[c].pc = "raised" /\ cCall'[c].fault = "not_found"
                  /\ cStore' = cStore
            /\ (cCall[c].pc = "read" /\ cCall'[c].pc = "returned") =>
                  /\ cStore' = [cStore EXCEPT ![cCall[c].item_id] = cCall'[c].ret]
                  /\ cStore[cCall[c].item_id] = cCall[c].read =>
                        \A f \in DataFields \ DOMAIN cCall[c].updates :
                            cStore'[cCall[c].item_id][f] = cStore[cCall[c].item_id][f]]_vars

C25_Witness ==
    \E c, d \in Callers :
        /\ cCall[c].pc = "returned"
        /\ DOMAIN cCall[c].updates = {"a"}
        /\ cCall[c].ret.b = "b0"
        /\ cCall[d].pc = "raised" /\ cCall[d].fault = "not_found"

\* C26: two update_item calls on the same item with disjoint sets of updated
\* fields that both returned leave an item holding both callers' updates.
C26_Original ==
    \A c, d \in Callers :
        (/\ c # d
         /\ cCall[c].pc = "returned" /\ cCall[d].pc = "returned"
         /\ cCall[c].item_id = cCall[d].item_id
         /\ DOMAIN cCall[c].updates \cap DOMAIN cCall[d].updates = {}) =>
            \A f \in DOMAIN cCall[c].updates :
                cStore[cCall[c].item_id][f] = cCall[c].updates[f]

\* ------------------------------------------------------------------------
\* More properties of the evaluation rubrics (SpecRubric)
\* ------------------------------------------------------------------------
\* the template with every pattern {name} replaced by the value of name in
\* one pass, the replaced values not being looked at again
RECURSIVE SubstitutePatterns(_, _)
SubstitutePatterns(s, value) ==
    IF s = << >> THEN << >>
    ELSE IF Len(s) >= 3 /\ s[2] \in PlaceholderNames /\ SubSeq(s, 1, 3) = Pattern(s[2])
         THEN value[s[2]] \o SubstitutePatterns(SubSeq(s, 4, Len(s)), value)
         ELSE << Head(s) >> \o SubstitutePatterns(Tail(s), value)

\* C27: a value substituted for one placeholder is not rewritten by a later
\* substitution: each value stands verbatim in the prompt, also when it holds
\* the text of another placeholder, so the prompt is what replacing all four
\* placeholders at once gives, whatever the order of the replacements.
C27_Original ==
    \A i \in 1..Len(evalCalls) :
        evalCalls[i].prompt =
            SubstitutePatterns(EnabledRubrics[i].prompty,
                [n \in PlaceholderNames |->
                    CASE n = "question" -> evalArgs.question
                      [] n = "context" -> JoinSources(evalArgs.api_response.context, 1)
                      [] n = "answer" -> evalArgs.api_response.response
                      [] n = "ground_truth" ->
                            IF EnabledRubrics[i].gt THEN evalArgs.ground_truth ELSE << >>])
====
